---- MODULE Spec2Model ----
(***************************************************************************)
(* A model of keil_builder.py: KeilBuilder.build() -- argument processing, *)
(* command-line construction, the child-process wait running concurrently  *)
(* with the log tailer thread (_print_build_output), the shutdown          *)
(* handshake (grace sleep, stop_event.set(), bounded join), exit-code      *)
(* interpretation and artifact collection -- and main().                   *)
(*                                                                         *)
(* Text is modelled as a tuple of one-character strings, so that           *)
(* startswith / endswith / "in" / int() / f"-j{n}" are computed, not       *)
(* assumed.  None is the one-element tuple <<"None">>, which no text       *)
(* equals because its element is not a single character.                   *)
(*                                                                         *)
(* Time: time.sleep(d) and join(timeout=d) guarantee a lower bound on the  *)
(* delay only; the interpreter gives no upper bound on when a thread runs  *)
(* again.  Every interleaving of the threads' steps is therefore a         *)
(* behaviour of the program, and sleeps are plain steps.                   *)
(*                                                                         *)
(* Not modelled: KeyboardInterrupt (asynchronous), and the [INFO] banner   *)
(* lines of build(), which no decision depends on.                         *)
(***************************************************************************)
EXTENDS Integers, Sequences, FiniteSets, TLC

(***************************************************************************)
(* Bounds of the model.                                                    *)
(***************************************************************************)
MaxArgs == 2
MaxBursts == 2
MaxBurstLen == 2
MaxStale == 1

(***************************************************************************)
(* Text helpers.                                                           *)
(***************************************************************************)
None == <<"None">>

Truthy(x) == x # None /\ x # <<>>

Digits == <<"0", "1", "2", "3", "4", "5", "6", "7", "8", "9">>

IsDigit(c) == \E i \in 1..10 : Digits[i] = c

DigitVal(c) == (CHOOSE i \in 1..10 : Digits[i] = c) - 1

StartsWith(s, p) == Len(s) >= Len(p) /\ SubSeq(s, 1, Len(p)) = p

EndsWith(s, p) == Len(s) >= Len(p) /\ SubSeq(s, Len(s) - Len(p) + 1, Len(s)) = p

Contains(s, p) == \E i \in 1..(Len(s) - Len(p) + 1) : SubSeq(s, i, i + Len(p) - 1) = p

Drop(s, n) == SubSeq(s, n + 1, Len(s))

RECURSIVE NatOf(_)
NatOf(s) == IF s = <<>> THEN 0 ELSE 10 * NatOf(SubSeq(s, 1, Len(s) - 1)) + DigitVal(s[Len(s)])

AllDigits(s) == s # <<>> /\ \A i \in 1..Len(s) : IsDigit(s[i])

\* int(text) succeeds on an optional sign followed by at least one decimal
\* digit; on anything else it raises ValueError.
IsInt(s) ==
    IF s # <<>> /\ s[1] \in {"-", "+"} THEN AllDigits(Drop(s, 1)) ELSE AllDigits(s)

IntOf(s) ==
    IF s[1] = "-" THEN 0 - NatOf(Drop(s, 1))
    ELSE IF s[1] = "+" THEN NatOf(Drop(s, 1))
    ELSE NatOf(s)

RECURSIVE DecOf(_)
DecOf(n) == IF n < 10 THEN <<Digits[n + 1]>> ELSE DecOf(n \div 10) \o <<Digits[(n % 10) + 1]>>

\* str(n) as the f-string formats an int.
StrOfInt(n) == IF n < 0 THEN <<"-">> \o DecOf(0 - n) ELSE DecOf(n)

(***************************************************************************)
(* pathlib.Path: str(Path(text)) drops empty and "." components and keeps  *)
(* a leading root.                                                         *)
(***************************************************************************)
RECURSIVE SplitSlash(_, _)
SplitSlash(s, cur) ==
    IF s = <<>> THEN <<cur>>
    ELSE IF s[1] = "/" THEN <<cur>> \o SplitSlash(Drop(s, 1), <<>>)
    ELSE SplitSlash(Drop(s, 1), cur \o <<s[1]>>)

RECURSIVE KeepParts(_)
KeepParts(ps) ==
    IF ps = <<>> THEN <<>>
    ELSE IF ps[1] = <<>> \/ ps[1] = <<".">> THEN KeepParts(Tail(ps))
    ELSE <<ps[1]>> \o KeepParts(Tail(ps))

RECURSIVE JoinSlash(_)
JoinSlash(ps) ==
    IF ps = <<>> THEN <<>>
    ELSE IF Len(ps) = 1 THEN ps[1]
    ELSE ps[1] \o <<"/">> \o JoinSlash(Tail(ps))

IsAbsolute(s) == s # <<>> /\ s[1] = "/"

PathOf(s) ==
    LET body == JoinSlash(KeepParts(SplitSlash(s, <<>>)))
    IN  IF IsAbsolute(s) THEN <<"/">> \o body
        ELSE IF body = <<>> THEN <<".">> ELSE body

\* base / rel
PathJoin(base, rel) == IF IsAbsolute(rel) THEN PathOf(rel) ELSE PathOf(base \o <<"/">> \o rel)

(***************************************************************************)
(* Fixed texts of the program.                                             *)
(***************************************************************************)
UV4Exe == <<"U", "V", "4", ".", "e", "x", "e">>
DashJ == <<"-", "j">>
DashR == <<"-", "r">>
DashT == <<"-", "t">>
DashO == <<"-", "o">>
ExtUvprojx == <<".", "u", "v", "p", "r", "o", "j", "x">>
ExtUvproj == <<".", "u", "v", "p", "r", "o", "j">>
HelpArgs == {<<"-", "h">>, <<"-", "-", "h", "e", "l", "p">>, <<"/", "?">>}
ForbiddenChars == {"<", ">", ":", "|", "/", "\\", "\"", "*", "?"}
LogName == <<"k", "e", "i", "l", "_", "b", "u", "i", "l", "d", "e", "r", ".", "l", "o", "g">>
current_dir == <<"/", "w">>
build_log_file == PathJoin(current_dir, LogName)
DefaultKeil == PathOf(UV4Exe)

\* The status build() returns, and main() exits with, on a fatal condition.
Sentinel == -1

\* One printed line: level, fixed text, and the value formatted into it.
Msg(level, what, arg) == <<level, what, arg>>

(***************************************************************************)
(* Sample command-line arguments.                                          *)
(***************************************************************************)
ArgJ4 == <<"-", "j", "4">>
ArgJ0 == <<"-", "j", "0">>
ArgJ12 == <<"-", "j", "1", "2">>
ArgJNeg == <<"-", "j", "-", "1">>
ArgJBad == <<"-", "j", "x">>
ArgJOnly == <<"-", "j">>
ArgProj == <<"p", ".", "u", "v", "p", "r", "o", "j", "x">>
ArgProjDot == <<".", "/", "q", ".", "u", "v", "p", "r", "o", "j">>
ArgProjAbs == <<"/", "a", "/", "p", ".", "u", "v", "p", "r", "o", "j">>
ArgTarget == <<"D", "b", "g">>
ArgEmpty == <<>>
ArgKeil == <<"/", "k", "/", "U", "V", "4", ".", "e", "x", "e">>
ArgHelp == <<"-", "h">>
ArgSlash == <<"a", "/", "b">>

SampleArgs ==
    {ArgJ4, ArgJ0, ArgJ12, ArgJNeg, ArgJBad, ArgJOnly, ArgProj, ArgProjDot, ArgProjAbs,
     ArgTarget, ArgEmpty, ArgKeil, ArgHelp, ArgSlash}

ArgLists == UNION {[1..n -> SampleArgs] : n \in 0..MaxArgs}

\* The argument lists of the full pipeline: auto-detection, and an explicit
\* project with a job count and a target.
BuildArgs == {<<>>, <<ArgJ4, ArgProj, ArgTarget>>}

FoundProject == PathJoin(current_dir, <<"s", "/", "f", ".", "u", "v", "p", "r", "o", "j", "x">>)

(***************************************************************************)
(* The log file.  A unit is one piece of text the child wrote: n numbers   *)
(* the units of this build in write order (0 marks content left by an      *)
(* earlier build), path is the quoted path when the unit is a summary line *)
(* and None when it is ordinary progress text.                             *)
(***************************************************************************)
Unit(n, path) == [n |-> n, path |-> path]

AxfAbs == <<"/", "o", "/", "a", ".", "a", "x", "f">>
AxfRel == <<"b", "/", "a", ".", "a", "x", "f">>
SummaryPaths == {AxfAbs, AxfRel}

StaleLogs == UNION {[1..n -> {Unit(0, None), Unit(0, AxfAbs)}] : n \in 0..MaxStale}

\* The returncodes the child can end with: subprocess reports -N for a child
\* killed by signal N.
ExitCodes == {-1, 0, 1, 2}

Suffixes == <<<<".", "h", "e", "x">>, <<".", "b", "i", "n">>>>

VARIABLES
    args,            \* sys.argv[1:]
    discovered,      \* what _find_projects() returns in this directory tree
    project_exists,  \* whether project_path.exists()
    keil_path, project_path, project_target, parallel_jobs,
    cmd,             \* the argument vector handed to subprocess.run
    pc,              \* position of the main thread in main()/build()
    printed,         \* the lines the main thread printed, in order
    ret,             \* <<v>> once build() has returned v, <<>> before
    exit_status,     \* <<v>> once sys.exit(v) was called, <<>> before
    log,             \* content of build_log_file: the units written, in file order
    log_exists,      \* whether build_log_file exists
    cstate,          \* the child process: "none", "running", "exited", "killed"
    child_code,      \* <<c>> once the child has exited with returncode c
    bursts,          \* how many bursts the child has appended to the log
    wait_end,        \* how subprocess.run ended: "none", "completed", "timeout", "launch_error"
    exit_code,       \* build()'s local exit_code: <<c>> once assigned
    stop_event,      \* threading.Event: set or not
    tpc,             \* position of the tailer thread
    last_pos,        \* the tailer's read cursor
    forwarded,       \* what the tailer has printed, in order
    tick,            \* how the tick before the current sleep went
    output_dir, output_name,  \* the result of _parse_output_info()
    collect,         \* how far artifact collection got
    output_files,    \* the candidate files found, in order
    file_i,          \* index of the loop over output_files
    attempts,        \* per candidate file handled: whether stat() and copy2() succeeded
    copied,          \* the artifacts copied into current_dir
    log_text,        \* the log file's text, character by character (SpecParse)
    summary_path,    \* the quoted path of the well-formed summary line in log_text, or None
    readable         \* whether read_text() of the log file succeeds (SpecParse)

reqVars == <<keil_path, project_path, project_target, parallel_jobs>>
envVars == <<args, discovered, project_exists, log_text, summary_path, readable>>
childVars == <<cstate, child_code, bursts>>
tailVars == <<tpc, last_pos, forwarded, tick>>
collectVars == <<output_dir, output_name, collect, output_files, file_i, attempts, copied>>
runVars == <<log, log_exists, childVars, wait_end, exit_code, stop_event, tailVars, collectVars>>
vars == <<envVars, reqVars, cmd, pc, printed, ret, exit_status, runVars>>

(***************************************************************************)
(* _process_args: one loop iteration, then the whole loop.                 *)
(***************************************************************************)
ArgStep(st, arg) ==
    IF Contains(arg, UV4Exe)
    THEN [st EXCEPT !.keil_path = PathOf(arg)]
    ELSE IF StartsWith(arg, DashJ) /\ Len(arg) > 2
    THEN (IF IsInt(Drop(arg, 2))
          THEN [st EXCEPT !.parallel_jobs = IntOf(Drop(arg, 2)),
                          !.printed = @ \o <<Msg("INFO", "Parallel jobs set to", StrOfInt(IntOf(Drop(arg, 2))))>>]
          ELSE [st EXCEPT !.parallel_jobs = 0,
                          !.printed = @ \o <<Msg("WARNING", "Invalid -j parameter", arg)>>])
    ELSE IF EndsWith(arg, ExtUvprojx) \/ EndsWith(arg, ExtUvproj)
    THEN [st EXCEPT !.project_path = IF IsAbsolute(arg) THEN PathOf(arg) ELSE PathJoin(current_dir, arg)]
    ELSE IF arg \in HelpArgs
    THEN [st EXCEPT !.exited = TRUE]
    ELSE IF \A i \in 1..Len(arg) : arg[i] \notin ForbiddenChars
    THEN [st EXCEPT !.project_target = arg]
    ELSE st

RECURSIVE ArgLoop(_, _)
ArgLoop(st, as) ==
    IF as = <<>> \/ st.exited THEN st ELSE ArgLoop(ArgStep(st, as[1]), Tail(as))

InitWith(argLists) ==
    /\ args \in argLists
    /\ discovered \in {<<>>, <<FoundProject>>}
    /\ project_exists \in BOOLEAN
    /\ keil_path = DefaultKeil
    /\ project_path = None
    /\ project_target = None
    /\ parallel_jobs = 0
    /\ cmd = <<>>
    /\ pc = "args"
    /\ printed = <<>>
    /\ ret = <<>>
    /\ exit_status = <<>>
    /\ log \in StaleLogs
    /\ log_exists = (log # <<>>)
    /\ cstate = "none"
    /\ child_code = <<>>
    /\ bursts = 0
    /\ wait_end = "none"
    /\ exit_code = <<>>
    /\ stop_event = FALSE
    /\ tpc = "idle"
    /\ last_pos = 0
    /\ forwarded = <<>>
    /\ tick = "none"
    /\ output_dir = None
    /\ output_name = None
    /\ collect = "unset"
    /\ output_files = <<>>
    /\ file_i = 0
    /\ attempts = <<>>
    /\ copied = {}
    /\ log_text = <<>>
    /\ summary_path = None
    /\ readable = TRUE

\* build(), lines 137-138: self._process_args(args); -h leaves through sys.exit(0).
ProcessArgs ==
    /\ pc = "args"
    /\ LET st == ArgLoop([keil_path |-> keil_path, parallel_jobs |-> parallel_jobs,
                          project_path |-> project_path, project_target |-> project_target,
                          printed |-> printed, exited |-> FALSE], args)
       IN  /\ keil_path' = st.keil_path
           /\ parallel_jobs' = st.parallel_jobs
           /\ project_path' = st.project_path
           /\ project_target' = st.project_target
           /\ printed' = st.printed
           /\ pc' = IF st.exited THEN "exited" ELSE "resolve"
           /\ exit_status' = IF st.exited THEN <<0>> ELSE exit_status
    /\ UNCHANGED <<envVars, cmd, ret, runVars>>

\* build(), lines 139-148: auto-detect the project, check that it exists.
ResolveProject ==
    /\ pc = "resolve"
    /\ IF project_path = None /\ discovered = <<>>
       THEN /\ printed' = printed \o <<Msg("ERROR", "No Keil project found!", <<>>)>>
            /\ ret' = <<Sentinel>>
            /\ pc' = "returned"
            /\ UNCHANGED project_path
       ELSE /\ project_path' = IF project_path = None THEN discovered[Len(discovered)] ELSE project_path
            /\ IF project_exists
               THEN /\ pc' = "cmd"
                    /\ UNCHANGED <<printed, ret>>
               ELSE /\ printed' = printed \o <<Msg("ERROR", "Project not found", project_path')>>
                    /\ ret' = <<Sentinel>>
                    /\ pc' = "returned"
    /\ UNCHANGED <<envVars, keil_path, project_target, parallel_jobs, cmd, exit_status, runVars>>

\* Mutant: the parallelism flag is the default -j0 whatever was asked for.
BuildCmdDefaultJobs ==
    /\ pc = "cmd"
    /\ cmd' = <<keil_path, DashJ \o StrOfInt(0), DashR, project_path>>
               \o (IF Truthy(project_target) THEN <<DashT, project_target>> ELSE <<>>)
               \o <<DashO, build_log_file>>
    /\ pc' = "truncate"
    /\ UNCHANGED <<envVars, reqVars, printed, ret, exit_status, runVars>>

\* build(), lines 158-166: the argument vector.
BuildCmd ==
    /\ pc = "cmd"
    /\ cmd' = <<keil_path, DashJ \o StrOfInt(parallel_jobs), DashR, project_path>>
               \o (IF Truthy(project_target) THEN <<DashT, project_target>> ELSE <<>>)
               \o <<DashO, build_log_file>>
    /\ pc' = "truncate"
    /\ UNCHANGED <<envVars, reqVars, printed, ret, exit_status, runVars>>

(***************************************************************************)
(* Starting the build: the log file, the tailer thread, the child.         *)
(***************************************************************************)
\* Mutant: the log file is not emptied before the build.
TruncateLogSkipped ==
    /\ pc = "truncate"
    /\ log_exists' = TRUE
    /\ pc' = "thread"
    /\ UNCHANGED <<envVars, reqVars, cmd, printed, ret, exit_status, log, childVars, wait_end,
                   exit_code, stop_event, tailVars, collectVars>>

\* build(), line 169: self.build_log_file.write_text("").
TruncateLog ==
    /\ pc = "truncate"
    /\ log' = <<>>
    /\ log_exists' = TRUE
    /\ pc' = "thread"
    /\ UNCHANGED <<envVars, reqVars, cmd, printed, ret, exit_status, childVars, wait_end,
                   exit_code, stop_event, tailVars, collectVars>>

\* build(), lines 170-175: a fresh Event and the daemon thread.
StartTailer ==
    /\ pc = "thread"
    /\ stop_event' = FALSE
    /\ tpc' = "check"
    /\ last_pos' = 0
    /\ pc' = "run"
    /\ UNCHANGED <<envVars, reqVars, cmd, printed, ret, exit_status, log, log_exists, childVars,
                   wait_end, exit_code, forwarded, tick, collectVars>>

\* Mutant: the stop signal is set when the child is started, not after the wait.
LaunchChildThenStop ==
    /\ pc = "run"
    /\ cstate' = "running"
    /\ stop_event' = TRUE
    /\ pc' = "wait"
    /\ UNCHANGED <<envVars, reqVars, cmd, printed, ret, exit_status, log, log_exists, child_code,
                   bursts, wait_end, exit_code, tailVars, collectVars>>

\* build(), line 177: subprocess.run starts the child and waits for it.
LaunchChild ==
    /\ pc = "run"
    /\ cstate' = "running"
    /\ pc' = "wait"
    /\ UNCHANGED <<envVars, reqVars, cmd, printed, ret, exit_status, log, log_exists, child_code,
                   bursts, wait_end, exit_code, stop_event, tailVars, collectVars>>

\* Mutant: the except branch returns without a finally block.
LaunchFailsWithoutFinally ==
    /\ pc = "run"
    /\ printed' = printed \o <<Msg("ERROR", "Build error", <<>>)>>
    /\ wait_end' = "launch_error"
    /\ ret' = <<Sentinel>>
    /\ pc' = "returned"
    /\ UNCHANGED <<envVars, reqVars, cmd, exit_status, log, log_exists, childVars,
                   exit_code, stop_event, tailVars, collectVars>>

\* build(), lines 177, 182-184: the launch raises (no executable, no permission).
LaunchFails ==
    /\ pc = "run"
    /\ printed' = printed \o <<Msg("ERROR", "Build error", <<>>)>>
    /\ wait_end' = "launch_error"
    /\ pc' = "grace"
    /\ UNCHANGED <<envVars, reqVars, cmd, ret, exit_status, log, log_exists, childVars,
                   exit_code, stop_event, tailVars, collectVars>>

(***************************************************************************)
(* The child process (the toolchain): appends bursts to the log, exits.    *)
(***************************************************************************)
Flushed == Cardinality({i \in 1..Len(log) : log[i].n > 0})

HasSummary == \E i \in 1..Len(log) : log[i].n > 0 /\ log[i].path # None

Burst(k, p) == [i \in 1..k |-> Unit(Flushed + i, IF i = k THEN p ELSE None)]

\* The toolchain may create its -o file afresh before it writes anything:
\* the (still empty) file is gone until the first burst creates it again.
ChildRecreatesLog ==
    /\ cstate = "running"
    /\ bursts = 0
    /\ log_exists
    /\ log = <<>>
    /\ log_exists' = FALSE
    /\ UNCHANGED <<envVars, reqVars, cmd, pc, printed, ret, exit_status, log, cstate, bursts,
                   child_code, wait_end, exit_code, stop_event, tailVars, collectVars>>

ChildWrite ==
    /\ cstate = "running"
    /\ bursts < MaxBursts
    /\ \E k \in 1..MaxBurstLen : \E p \in (IF HasSummary THEN {None} ELSE {None} \cup SummaryPaths) :
           log' = log \o Burst(k, p)
    /\ log_exists' = TRUE
    /\ bursts' = bursts + 1
    /\ UNCHANGED <<envVars, reqVars, cmd, pc, printed, ret, exit_status, cstate,
                   child_code, wait_end, exit_code, stop_event, tailVars, collectVars>>

ChildExit ==
    /\ cstate = "running"
    /\ cstate' = "exited"
    /\ \E c \in ExitCodes : child_code' = <<c>>
    /\ UNCHANGED <<envVars, reqVars, cmd, pc, printed, ret, exit_status, log, log_exists,
                   bursts, wait_end, exit_code, stop_event, tailVars, collectVars>>

(***************************************************************************)
(* The wait and the shutdown handshake.                                    *)
(***************************************************************************)
\* build(), lines 177-178: the wait returns, exit_code = result.returncode.
WaitReturns ==
    /\ pc = "wait"
    /\ cstate = "exited"
    /\ exit_code' = child_code
    /\ wait_end' = "completed"
    /\ pc' = "grace"
    /\ UNCHANGED <<envVars, reqVars, cmd, printed, ret, exit_status, log, log_exists, childVars,
                   stop_event, tailVars, collectVars>>

\* build(), lines 177, 179-181: TimeoutExpired; subprocess.run has killed the child.
WaitTimeout ==
    /\ pc = "wait"
    /\ cstate = "running"
    /\ cstate' = "killed"
    /\ printed' = printed \o <<Msg("ERROR", "Build timeout!", <<>>)>>
    /\ wait_end' = "timeout"
    /\ pc' = "grace"
    /\ UNCHANGED <<envVars, reqVars, cmd, ret, exit_status, log, log_exists, child_code, bursts,
                   exit_code, stop_event, tailVars, collectVars>>

\* build(), line 186: time.sleep(1).
GraceSleep ==
    /\ pc = "grace"
    /\ pc' = "signal"
    /\ UNCHANGED <<envVars, reqVars, cmd, printed, ret, exit_status, runVars>>

\* build(), line 187: stop_event.set().
SignalStop ==
    /\ pc = "signal"
    /\ stop_event' = TRUE
    /\ pc' = "join"
    /\ UNCHANGED <<envVars, reqVars, cmd, printed, ret, exit_status, log, log_exists, childVars,
                   wait_end, exit_code, tailVars, collectVars>>

\* Mutant: the except branches do not return; execution falls through.
AfterFinallyFallsThrough ==
    /\ pc' = "parse"
    /\ UNCHANGED ret

\* After the finally block: the pending "return -1" of an except branch, or
\* the statement after the try.
AfterFinally ==
    IF wait_end \in {"timeout", "launch_error"}
    THEN /\ ret' = <<Sentinel>>
         /\ pc' = "returned"
    ELSE /\ pc' = "parse"
         /\ UNCHANGED ret

\* build(), line 188: join(timeout=1) returns because the thread has ended.
JoinTailer ==
    /\ pc = "join"
    /\ tpc = "done"
    /\ AfterFinally
    /\ UNCHANGED <<envVars, reqVars, cmd, printed, exit_status, runVars>>

\* build(), line 188: join(timeout=1) returns because the second has passed.
JoinTimeout ==
    /\ pc = "join"
    /\ tpc # "done"
    /\ AfterFinally
    /\ UNCHANGED <<envVars, reqVars, cmd, printed, exit_status, runVars>>

(***************************************************************************)
(* The tailer thread, _print_build_output.  It is a daemon thread: it      *)
(* runs only while the process does.                                       *)
(***************************************************************************)
\* line 73: while not stop_event.is_set().
TailerCheck ==
    /\ tpc = "check"
    /\ pc # "exited"
    /\ tpc' = IF stop_event THEN "done" ELSE "read"
    /\ UNCHANGED <<envVars, reqVars, cmd, pc, printed, ret, exit_status, log, log_exists, childVars,
                   wait_end, exit_code, stop_event, last_pos, forwarded, tick, collectVars>>

\* Mutant: the read starts at the beginning of the file, without the seek.
ReadFromStart(pos) == SubSeq(log, 1, Len(log))

\* f.seek(last_pos); f.read()
ReadFrom(pos) == SubSeq(log, pos + 1, Len(log))

\* lines 74-85, the four ways through one tick: the file is absent; the open,
\* the read or the print raises and the bare except swallows it; the read
\* returns nothing; the read returns text, which is printed before the cursor
\* moves to the end of what was read.
TickOutcome(outcome) ==
    /\ tick' = outcome
    /\ CASE outcome = "missing" -> ~log_exists /\ UNCHANGED <<forwarded, last_pos>>
         [] outcome = "failed" -> log_exists /\ UNCHANGED <<forwarded, last_pos>>
         [] outcome = "empty" ->
                log_exists /\ ReadFrom(last_pos) = <<>> /\ UNCHANGED <<forwarded, last_pos>>
         [] outcome = "new" ->
                /\ log_exists
                /\ ReadFrom(last_pos) # <<>>
                /\ forwarded' = forwarded \o ReadFrom(last_pos)
                /\ last_pos' = last_pos + Len(ReadFrom(last_pos))

Outcomes == {"missing", "failed", "empty", "new"}

\* Mutant: the try statement encloses the loop, so a tick that raises ends
\* the thread.
TailerReadUnguarded ==
    /\ tpc = "read"
    /\ pc # "exited"
    /\ \E outcome \in Outcomes :
          /\ TickOutcome(outcome)
          /\ tpc' = IF outcome = "failed" THEN "done" ELSE "sleep"
    /\ UNCHANGED <<envVars, reqVars, cmd, pc, printed, ret, exit_status, log, log_exists, childVars,
                   wait_end, exit_code, stop_event, collectVars>>

\* lines 74-85: one tick, up to the sleep of line 86.
TailerRead ==
    /\ tpc = "read"
    /\ pc # "exited"
    /\ \E outcome \in Outcomes : TickOutcome(outcome)
    /\ tpc' = "sleep"
    /\ UNCHANGED <<envVars, reqVars, cmd, pc, printed, ret, exit_status, log, log_exists, childVars,
                   wait_end, exit_code, stop_event, collectVars>>

\* Mutant: after the sleep the loop goes on to the next tick without
\* evaluating its condition.
TailerSleepThenRead ==
    /\ tpc = "sleep"
    /\ pc # "exited"
    /\ tpc' = "read"
    /\ tick' = "none"
    /\ UNCHANGED <<envVars, reqVars, cmd, pc, printed, ret, exit_status, log, log_exists, childVars,
                   wait_end, exit_code, stop_event, last_pos, forwarded, collectVars>>

\* line 86: time.sleep(0.2); the tick is over.
TailerSleep ==
    /\ tpc = "sleep"
    /\ pc # "exited"
    /\ tpc' = "check"
    /\ tick' = "none"
    /\ UNCHANGED <<envVars, reqVars, cmd, pc, printed, ret, exit_status, log, log_exists, childVars,
                   wait_end, exit_code, stop_event, last_pos, forwarded, collectVars>>

(***************************************************************************)
(* After the handshake: parsing the log, the report, artifact collection.  *)
(***************************************************************************)
Parts(p) == KeepParts(SplitSlash(p, <<>>))

\* str(Path(p).parent)
PathParent(p) ==
    LET ps == Parts(p)
        up == JoinSlash(SubSeq(ps, 1, Len(ps) - 1))
    IN  IF IsAbsolute(p) THEN <<"/">> \o up
        ELSE IF up = <<>> THEN <<".">> ELSE up

\* Path(p).name
PathName(p) == LET ps == Parts(p) IN IF ps = <<>> THEN <<>> ELSE ps[Len(ps)]

\* text.replace(old, ""): every non-overlapping occurrence, left to right.
RECURSIVE Remove(_, _)
Remove(s, old) ==
    IF s = <<>> THEN <<>>
    ELSE IF StartsWith(s, old) THEN Remove(Drop(s, Len(old)), old)
    ELSE <<s[1]>> \o Remove(Tail(s), old)

ExtAxf == <<".", "a", "x", "f">>

\* re.search over the content: the first summary line, 0 when there is none.
FirstSummary(content) ==
    IF \E i \in 1..Len(content) : content[i].path # None
    THEN CHOOSE i \in 1..Len(content) :
             /\ content[i].path # None
             /\ \A j \in 1..(i - 1) : content[j].path = None
    ELSE 0

\* build(), line 189, and _parse_output_info, lines 45-59.  Reading the file
\* may raise; the bare except then yields (None, None).
ParseOutputInfo ==
    /\ pc = "parse"
    /\ \E reads \in BOOLEAN :
          IF log_exists /\ reads /\ FirstSummary(log) # 0
          THEN /\ output_dir' = PathParent(log[FirstSummary(log)].path)
               /\ output_name' = Remove(PathName(log[FirstSummary(log)].path), ExtAxf)
          ELSE /\ output_dir' = None
               /\ output_name' = None
    /\ pc' = "report"
    /\ UNCHANGED <<envVars, reqVars, cmd, printed, ret, exit_status, log, log_exists, childVars,
                   wait_end, exit_code, stop_event, tailVars, collect, output_files, file_i,
                   attempts, copied>>

\* Mutant: a failed build is reported but collection goes on.
ReportWithoutReturn ==
    /\ pc = "report"
    /\ printed' = printed \o
          <<IF exit_code = <<0>> THEN Msg("SUCCESS", "Build completed successfully", <<>>)
            ELSE IF exit_code = <<1>> THEN Msg("SUCCESS", "Build completed with warnings", <<>>)
            ELSE Msg("ERROR", "Build failed", <<>>)>>
    /\ pc' = "locate"
    /\ UNCHANGED <<envVars, reqVars, cmd, ret, exit_status, runVars>>

\* build(), lines 190-197: the exit code decides.
Report ==
    /\ pc = "report"
    /\ IF exit_code = <<0>>
       THEN /\ printed' = printed \o <<Msg("SUCCESS", "Build completed successfully", <<>>)>>
            /\ pc' = "locate"
            /\ UNCHANGED ret
       ELSE IF exit_code = <<1>>
       THEN /\ printed' = printed \o <<Msg("SUCCESS", "Build completed with warnings", <<>>)>>
            /\ pc' = "locate"
            /\ UNCHANGED ret
       ELSE /\ printed' = printed \o <<Msg("ERROR", "Build failed", <<>>)>>
            /\ ret' = exit_code
            /\ pc' = "returned"
    /\ UNCHANGED <<envVars, reqVars, cmd, exit_status, runVars>>

\* _combine_path, lines 61-69, when nothing raises.
CombinePath(base_path, relative_path) ==
    IF IsAbsolute(relative_path) THEN PathOf(relative_path)
    ELSE PathJoin(PathParent(base_path),
                  IF StartsWith(relative_path, <<".">>) THEN relative_path
                  ELSE <<".", "/">> \o relative_path)

\* build(), lines 198-200: resolve the output directory and test that it
\* exists.  _combine_path returns None when resolving raises.
LocateOutput ==
    /\ pc = "locate"
    /\ IF Truthy(output_dir) /\ Truthy(output_name)
       THEN \E resolved \in BOOLEAN, exists \in BOOLEAN :
               /\ collect' = IF ~resolved THEN "unresolved"
                              ELSE IF ~exists THEN "no_dir" ELSE "dir"
               /\ pc' = IF resolved /\ exists THEN "glob" ELSE "finish"
       ELSE /\ collect' = "parse_miss"
            /\ pc' = "finish"
    /\ UNCHANGED <<envVars, reqVars, cmd, printed, ret, exit_status, log, log_exists, childVars,
                   wait_end, exit_code, stop_event, tailVars, output_dir, output_name,
                   output_files, file_i, attempts, copied>>

\* The files of the set, in the order of the suffix list.
InOrder(present) == SelectSeq(Suffixes, LAMBDA x : x \in present)

\* build(), lines 201-206, 214-215: glob <name>.hex and <name>.bin.
GlobOutput ==
    /\ pc = "glob"
    /\ \E present \in SUBSET {Suffixes[i] : i \in 1..Len(Suffixes)} :
          /\ output_files' = [i \in 1..Len(InOrder(present)) |-> output_name \o InOrder(present)[i]]
          /\ IF present = {}
             THEN /\ printed' = printed \o <<Msg("WARNING", "No output files found", <<>>)>>
                  /\ collect' = "no_files"
                  /\ pc' = "finish"
                  /\ UNCHANGED file_i
             ELSE /\ collect' = "files"
                  /\ file_i' = 1
                  /\ pc' = "size"
                  /\ UNCHANGED printed
    /\ UNCHANGED <<envVars, reqVars, cmd, ret, exit_status, log, log_exists, childVars,
                   wait_end, exit_code, stop_event, tailVars, output_dir, output_name,
                   attempts, copied>>

\* build(), line 208: file.stat().st_size, outside the try; when stat raises
\* the exception leaves build().
SizeFile ==
    /\ pc = "size"
    /\ \E ok \in BOOLEAN :
          /\ attempts' = Append(attempts, [file |-> output_files[file_i], sized |-> ok, copy |-> "none"])
          /\ IF ok
             THEN /\ printed' = printed \o <<Msg("INFO", "size", output_files[file_i])>>
                  /\ pc' = "copy"
             ELSE /\ pc' = "raised"
                  /\ UNCHANGED printed
    /\ UNCHANGED <<envVars, reqVars, cmd, ret, exit_status, log, log_exists, childVars,
                   wait_end, exit_code, stop_event, tailVars, output_dir, output_name, collect,
                   output_files, file_i, copied>>

\* build(), lines 209-213: shutil.copy2 inside try/except, then the next file.
CopyFile ==
    /\ pc = "copy"
    /\ \E ok \in BOOLEAN :
          /\ attempts' = [attempts EXCEPT ![Len(attempts)].copy = IF ok THEN "ok" ELSE "failed"]
          /\ copied' = IF ok THEN copied \cup {output_files[file_i]} ELSE copied
          /\ printed' = printed \o
                 <<IF ok THEN Msg("OK", "Copied to", current_dir)
                   ELSE Msg("ERROR", "Copy failed", output_files[file_i])>>
    /\ file_i' = file_i + 1
    /\ pc' = IF file_i < Len(output_files) THEN "size" ELSE "finish"
    /\ UNCHANGED <<envVars, reqVars, cmd, ret, exit_status, log, log_exists, childVars,
                   wait_end, exit_code, stop_event, tailVars, output_dir, output_name, collect,
                   output_files>>

\* build(), lines 216-217: return exit_code.
Finish ==
    /\ pc = "finish"
    /\ ret' = exit_code
    /\ pc' = "returned"
    /\ UNCHANGED <<envVars, reqVars, cmd, printed, exit_status, runVars>>

(***************************************************************************)
(* main().                                                                 *)
(***************************************************************************)
\* Mutant: main() removes the build log before it exits.
MainExitRemovesLog ==
    /\ pc = "returned"
    /\ printed' = IF ret = <<0>> THEN printed \o <<Msg("INFO", "Done!", <<>>)>> ELSE printed
    /\ exit_status' = ret
    /\ log_exists' = FALSE
    /\ pc' = "exited"
    /\ UNCHANGED <<envVars, reqVars, cmd, ret, log, childVars, wait_end, exit_code, stop_event,
                   tailVars, collectVars>>

\* lines 223-226: sys.exit(exit_code), after "Done!" for 0.
MainExit ==
    /\ pc = "returned"
    /\ printed' = IF ret = <<0>> THEN printed \o <<Msg("INFO", "Done!", <<>>)>> ELSE printed
    /\ exit_status' = ret
    /\ pc' = "exited"
    /\ UNCHANGED <<envVars, reqVars, cmd, ret, runVars>>

\* lines 230-232: an exception out of build(): print it, sys.exit(-1).
MainExcept ==
    /\ pc = "raised"
    /\ printed' = printed \o <<Msg("ERROR", "exception", <<>>)>>
    /\ exit_status' = <<Sentinel>>
    /\ pc' = "exited"
    /\ UNCHANGED <<envVars, reqVars, cmd, ret, runVars>>

(***************************************************************************)
(* _parse_output_info character by character: re.search of                 *)
(*   "([^"]+)"\s*-\s*\d+\s*Error\(s\),\s*\d+\s*Warning\(s\)                  *)
(* over the text of the log file.                                          *)
(***************************************************************************)
Quote == "\""
WsChars == {" ", "\t", "\n", "\r", "\f"}
ErrorLit == <<"E", "r", "r", "o", "r", "(", "s", ")", ",">>
WarningLit == <<"W", "a", "r", "n", "i", "n", "g", "(", "s", ")">>

\* The first position from i on that does not hold a character of the class.
SkipWs(s, i) ==
    CHOOSE k \in i..(Len(s) + 1) :
        /\ \A m \in i..(k - 1) : s[m] \in WsChars
        /\ (k = Len(s) + 1 \/ s[k] \notin WsChars)

SkipDigits(s, i) ==
    CHOOSE k \in i..(Len(s) + 1) :
        /\ \A m \in i..(k - 1) : IsDigit(s[m])
        /\ (k = Len(s) + 1 \/ ~IsDigit(s[k]))

HasAt(s, i, lit) == i + Len(lit) - 1 <= Len(s) /\ SubSeq(s, i, i + Len(lit) - 1) = lit

\* The closing quote of a group opened at i: the next quote, 0 when there is
\* none.  [^"]+ cannot cross a quote, so the group is all that lies between.
NextQuote(s, i) ==
    IF \E j \in (i + 1)..Len(s) : s[j] = Quote
    THEN CHOOSE j \in (i + 1)..Len(s) : s[j] = Quote /\ \A m \in (i + 1)..(j - 1) : s[m] # Quote
    ELSE 0

\* Mutant: the pattern stops after the error count.
MatchesAtErrorsOnly(s, i) ==
    /\ s[i] = Quote
    /\ NextQuote(s, i) > i + 1
    /\ LET dash == SkipWs(s, NextQuote(s, i) + 1)
           n1 == SkipWs(s, dash + 1)
           e == SkipWs(s, SkipDigits(s, n1))
       IN  /\ HasAt(s, dash, <<"-">>)
           /\ SkipDigits(s, n1) > n1
           /\ HasAt(s, e, SubSeq(ErrorLit, 1, Len(ErrorLit) - 1))

\* Whether the pattern matches with its opening quote at position i.
MatchesAt(s, i) ==
    /\ s[i] = Quote
    /\ NextQuote(s, i) > i + 1
    /\ LET dash == SkipWs(s, NextQuote(s, i) + 1)
           n1 == SkipWs(s, dash + 1)
           e == SkipWs(s, SkipDigits(s, n1))
           n2 == SkipWs(s, e + Len(ErrorLit))
           w == SkipWs(s, SkipDigits(s, n2))
       IN  /\ HasAt(s, dash, <<"-">>)
           /\ SkipDigits(s, n1) > n1
           /\ HasAt(s, e, ErrorLit)
           /\ SkipDigits(s, n2) > n2
           /\ HasAt(s, w, WarningLit)

\* match.group(1) of the leftmost match, None when nothing matches.
SearchSummary(s) ==
    IF \E i \in 1..Len(s) : MatchesAt(s, i)
    THEN LET i == CHOOSE i \in 1..Len(s) : MatchesAt(s, i) /\ \A m \in 1..(i - 1) : ~MatchesAt(s, m)
         IN  SubSeq(s, i + 1, NextQuote(s, i) - 1)
    ELSE None

\* build(), line 189, and _parse_output_info, lines 45-59, on the text.
ParseLogText ==
    /\ pc = "parse"
    /\ IF log_exists /\ readable /\ SearchSummary(log_text) # None
       THEN /\ output_dir' = PathParent(SearchSummary(log_text))
            /\ output_name' = Remove(PathName(SearchSummary(log_text)), ExtAxf)
       ELSE /\ output_dir' = None
            /\ output_name' = None
    /\ pc' = "report"
    /\ UNCHANGED <<envVars, reqVars, cmd, printed, ret, exit_status, log, log_exists, childVars,
                   wait_end, exit_code, stop_event, tailVars, collect, output_files, file_i,
                   attempts, copied>>

(***************************************************************************)
(* Sample log texts.                                                       *)
(***************************************************************************)
AxfBare == <<"a", ".", "a", "x", "f">>
AxfDeep == <<"/", "o", "/", "p", "/", "a", ".", "a", "x", "f">>
AxfTwice == <<"/", "o", "/", "a", ".", "a", "x", "f", ".", "a", "x", "f">>
AxfInside == <<"o", "/", "x", ".", "a", "x", "f", "y", ".", "a", "x", "f">>
ElfAbs == <<"/", "o", "/", "a", ".", "e", "l", "f">>
AxfDotRel == <<".", "/", "b", "/", "a", ".", "a", "x", "f">>
QuotedPaths == {AxfAbs, AxfRel, AxfBare, AxfDeep, AxfTwice, AxfInside, ElfAbs, AxfDotRel}

Quoted(p) == <<Quote>> \o p \o <<Quote>>
TailSpaced == <<" ", "-", " ", "0", " ", "E", "r", "r", "o", "r", "(", "s", ")", ",", " ", "1", "2", " ", "W", "a", "r", "n", "i", "n", "g", "(", "s", ")">>
TailTight == <<"-", "3", " ", "E", "r", "r", "o", "r", "(", "s", ")", ",", "0", " ", "W", "a", "r", "n", "i", "n", "g", "(", "s", ")">>
TailNoWarnings == <<" ", "-", " ", "0", " ", "E", "r", "r", "o", "r", "(", "s", ")">>
TailNoCount == <<" ", "-", " ", "E", "r", "r", "o", "r", "(", "s", ")", ",", " ", "0", " ", "W", "a", "r", "n", "i", "n", "g", "(", "s", ")">>

\* Lines that are a well-formed summary of p, and lines that are not.
SummaryLines(p) == {Quoted(p) \o TailSpaced, Quoted(p) \o TailTight}
OtherLines ==
    {<<"x">>, Quoted(AxfAbs) \o TailNoWarnings, Quoted(AxfAbs) \o TailNoCount,
     AxfAbs \o TailSpaced, Quoted(<<>>) \o TailSpaced}

Prefixes == {<<>>, <<"x", "\n">>, <<"\"", "q", "\"", " ", "x", "\n">>}
Endings == {<<>>, <<"\n", "x">>}

ParseInputs ==
    {[text |-> pre \o lp[1] \o suf, path |-> lp[2]] :
        pre \in Prefixes, suf \in Endings,
        lp \in UNION {{<<l, q>> : l \in SummaryLines(q)} : q \in QuotedPaths}}
    \cup {[text |-> pre \o line \o suf, path |-> None] :
        pre \in Prefixes, suf \in Endings, line \in OtherLines}

(***************************************************************************)
(* The specifications.                                                     *)
(***************************************************************************)
Init == InitWith(BuildArgs)

Next ==
    \/ ProcessArgs \/ ResolveProject \/ BuildCmd
    \/ TruncateLog \/ StartTailer \/ LaunchChild \/ LaunchFails
    \/ ChildRecreatesLog \/ ChildWrite \/ ChildExit
    \/ WaitReturns \/ WaitTimeout \/ GraceSleep \/ SignalStop \/ JoinTailer \/ JoinTimeout
    \/ TailerCheck \/ TailerRead \/ TailerSleep
    \/ ParseOutputInfo \/ Report \/ LocateOutput \/ GlobOutput \/ SizeFile \/ CopyFile \/ Finish
    \/ MainExit \/ MainExcept

Spec == Init /\ [][Next]_vars

\* Argument processing and command-line construction alone, over every
\* list of sample arguments.
InitCmd == InitWith(ArgLists)

NextCmd == ProcessArgs \/ ResolveProject \/ BuildCmd

SpecCmd == InitCmd /\ [][NextCmd]_vars

\* The main thread keeps running: every sleep, the bounded join and every
\* later statement of build() and main() end.  Nothing is assumed of the
\* tailer thread or of the child.
MainStep ==
    \/ GraceSleep \/ SignalStop \/ JoinTailer \/ JoinTimeout
    \/ ParseOutputInfo \/ Report \/ LocateOutput \/ GlobOutput \/ SizeFile \/ CopyFile \/ Finish
    \/ MainExit \/ MainExcept

\* One build whose project is discovered and exists, over a fresh directory.
InitLive == InitWith({<<>>}) /\ discovered = <<FoundProject>> /\ project_exists /\ log = <<>>

SpecMain == InitLive /\ [][Next]_vars /\ WF_vars(MainStep)

\* The tailer thread is scheduled fairly while the process runs.  Nothing is
\* assumed of the main thread or of the child.
TailerStep == TailerCheck \/ TailerRead \/ TailerSleep

SpecTailer == InitLive /\ [][Next]_vars /\ WF_vars(TailerStep)

\* Parsing the log text and what build() does with the result: the state
\* after the handshake of a build whose child ran to completion, over the
\* sample log texts, with the file present, absent or unreadable.
InitParse ==
    /\ \E in \in ParseInputs : log_text = in.text /\ summary_path = in.path
    /\ log_exists \in BOOLEAN
    /\ readable \in BOOLEAN
    /\ args = <<>>
    /\ discovered = <<FoundProject>>
    /\ project_exists = TRUE
    /\ keil_path = DefaultKeil
    /\ project_path = FoundProject
    /\ project_target = None
    /\ parallel_jobs = 0
    /\ cmd = <<keil_path, DashJ \o StrOfInt(0), DashR, project_path, DashO, build_log_file>>
    /\ pc = "parse"
    /\ printed = <<>>
    /\ ret = <<>>
    /\ exit_status = <<>>
    /\ log = <<>>
    /\ cstate = "exited"
    /\ child_code \in {<<0>>, <<1>>}
    /\ bursts = 0
    /\ wait_end = "completed"
    /\ exit_code = child_code
    /\ stop_event = TRUE
    /\ tpc = "done"
    /\ last_pos = 0
    /\ forwarded = <<>>
    /\ tick = "none"
    /\ output_dir = None
    /\ output_name = None
    /\ collect = "unset"
    /\ output_files = <<>>
    /\ file_i = 0
    /\ attempts = <<>>
    /\ copied = {}

NextParse ==
    \/ ParseLogText \/ Report \/ LocateOutput \/ GlobOutput \/ SizeFile \/ CopyFile \/ Finish
    \/ MainExit \/ MainExcept

SpecParse == InitParse /\ [][NextParse]_vars

(***************************************************************************)
(* The claims.                                                             *)
(***************************************************************************)
Printed(m) == \E i \in 1..Len(printed) : printed[i] = m

BeforeWaitEnd == {"args", "resolve", "cmd", "truncate", "thread", "run", "wait"}

AfterJoin == {"parse", "report", "locate", "glob", "size", "copy", "finish", "raised"}

Collecting == {"locate", "glob", "size", "copy", "finish", "raised"}

NothingCollected ==
    /\ collect = "unset"
    /\ output_files = <<>>
    /\ attempts = <<>>
    /\ copied = {}

\* C1: the stop signal is set only after the child-process wait has ended
\* (child observed to exit, timeout fired, or launch failed); it is never set
\* while the main thread has yet to finish waiting on the child.
C1_StopOnlyAfterWait ==
    stop_event =>
        /\ pc \notin BeforeWaitEnd
        /\ wait_end \in {"completed", "timeout", "launch_error"}
        /\ (wait_end = "completed" => cstate = "exited")
        /\ (wait_end = "timeout" => cstate = "killed")
        /\ (wait_end = "launch_error" => cstate = "none")

C1_Witness == stop_event /\ wait_end = "completed" /\ tpc = "sleep" /\ pc = "join"

\* C2: when the child wrote two or more bursts and writes nothing after it
\* ended, then once the tailer has stopped, what it forwarded is exactly the
\* concatenation of all bursts in write order, in every interleaving.
C2_AllBurstsForwarded ==
    (tpc = "done" /\ bursts >= 2 /\ cstate \in {"exited", "killed"}) =>
        /\ Len(forwarded) = Flushed
        /\ \A i \in 1..Len(forwarded) : forwarded[i].n = i
        /\ forwarded = log

\* C3: the tailer's read cursor never exceeds the number of units the child
\* has flushed so far, and once the tailer runs the log holds content of the
\* current build only.
C3_CursorWithinFlushed ==
    /\ last_pos <= Flushed
    /\ tpc # "idle" => \A i \in 1..Len(log) : log[i].n > 0

C3_Witness == cstate = "running" /\ Flushed >= 2 /\ last_pos = Flushed /\ bursts < MaxBursts

\* C4: when the wait ends by timeout or the launch fails, build() prints the
\* fatal error, returns the sentinel -1 and never reaches log parsing or
\* artifact collection.
C4_TimeoutAndLaunchErrorAreFatal ==
    wait_end \in {"timeout", "launch_error"} =>
        /\ (wait_end = "timeout" => Printed(Msg("ERROR", "Build timeout!", <<>>)))
        /\ (wait_end = "launch_error" => Printed(Msg("ERROR", "Build error", <<>>)))
        /\ pc \notin AfterJoin
        /\ output_dir = None /\ output_name = None
        /\ NothingCollected
        /\ (pc \in {"returned", "exited"} => ret = <<Sentinel>>)
        /\ (pc = "exited" => exit_status = <<Sentinel>>)

C4_Witness == wait_end = "timeout" /\ pc = "returned" /\ ret = <<Sentinel>> /\ Flushed > 0

\* C5: when the child exits with a code other than 0 or 1, build() returns
\* exactly that code, prints the build-failed error and never attempts
\* artifact collection.
C5_BuildFailureReturnsCode ==
    (wait_end = "completed" /\ exit_code \notin {<<0>>, <<1>>}) =>
        /\ exit_code = child_code
        /\ pc \notin Collecting
        /\ NothingCollected
        /\ (pc \in {"returned", "exited"} =>
               /\ ret = child_code
               /\ Printed(Msg("ERROR", "Build failed", <<>>)))

C5_Witness == wait_end = "completed" /\ child_code = <<2>> /\ pc = "returned" /\ output_dir # None

\* C6: the sentinel status is surfaced only for a launch error, a missing
\* project or a timeout, never for a build whose child ran to completion,
\* whatever the child's exit code.
C6_SentinelOnlyForFatal ==
    exit_status = <<Sentinel>> => wait_end # "completed"

\* C7: when the child exits with 0 or 1, a parse miss, a failure to resolve
\* the output directory (or its absence) and an empty candidate set each
\* print a warning line.
C7_EveryNonFatalWarns ==
    (pc \in {"finish", "returned", "exited"}
        /\ collect \in {"parse_miss", "unresolved", "no_dir", "no_files"}) =>
        \E i \in 1..Len(printed) :
            printed[i][1] = "WARNING" /\ printed[i][2] # "Invalid -j parameter"

\* C8: when the child exits with c in {0, 1}, build() runs to completion and
\* returns exactly c whatever non-fatal condition occurs afterwards (parse
\* miss, resolution failure, no candidates, a failure while sizing or copying
\* an artifact); none turns into the fatal sentinel.
C8_SuccessStatusKept ==
    (wait_end = "completed" /\ exit_code \in {<<0>>, <<1>>}) =>
        /\ pc # "raised"
        /\ (pc \in {"returned", "exited"} => ret = exit_code)
        /\ (pc = "exited" => exit_status = exit_code)

\* C9: for every candidate file found, in the order .hex then .bin, its size
\* is reported and a copy is attempted; a failed copy is reported for that
\* file and the remaining candidates are still processed.
C9_EveryCandidateHandled ==
    (collect = "files" /\ pc \in {"finish", "returned", "exited", "raised"}) =>
        /\ Len(attempts) = Len(output_files)
        /\ \A i \in 1..Len(attempts) :
              /\ attempts[i].file = output_files[i]
              /\ attempts[i].sized
              /\ Printed(Msg("INFO", "size", output_files[i]))
              /\ attempts[i].copy \in {"ok", "failed"}
              /\ (attempts[i].copy = "failed" => Printed(Msg("ERROR", "Copy failed", output_files[i])))

\* C10: for every parallelism level N >= 0 and every optional target, the
\* command line is exactly <toolchain>, -j<N>, -r, <project>, then -t <target>
\* iff a target is set, then -o <log>; exactly one token is a parallelism
\* flag and its digits decode to N.
IsJobsFlag(t) == StartsWith(t, DashJ) /\ AllDigits(Drop(t, 2))

C10_CommandLine ==
    (pc = "truncate" /\ parallel_jobs >= 0) =>
        LET n == Len(cmd) IN
        /\ n = IF Truthy(project_target) THEN 8 ELSE 6
        /\ cmd[1] = keil_path
        /\ IsJobsFlag(cmd[2])
        /\ NatOf(Drop(cmd[2], 2)) = parallel_jobs
        /\ cmd[3] = DashR
        /\ cmd[4] = project_path
        /\ (Truthy(project_target) => cmd[5] = DashT /\ cmd[6] = project_target)
        /\ cmd[n - 1] = DashO
        /\ cmd[n] = build_log_file
        /\ Cardinality({i \in 1..n : IsJobsFlag(cmd[i])}) = 1

C10_Witness ==
    /\ pc = "truncate"
    /\ parallel_jobs = 12
    /\ project_target = ArgJOnly
    /\ Len(cmd) = 8

\* C11: for a log with exactly one well-formed summary line the parser returns
\* the parent directory of the quoted path and its file name with only the
\* trailing .axf stripped, for absolute and relative paths; extension text
\* elsewhere in the name stays.
LastSlash(p) ==
    IF \E i \in 1..Len(p) : p[i] = "/"
    THEN CHOOSE i \in 1..Len(p) : p[i] = "/" /\ \A m \in (i + 1)..Len(p) : p[m] # "/"
    ELSE 0

DirOfPath(p) == IF LastSlash(p) = 1 THEN <<"/">> ELSE PathOf(SubSeq(p, 1, LastSlash(p) - 1))

BaseOfPath(p) ==
    LET name == Drop(p, LastSlash(p))
    IN  IF EndsWith(name, ExtAxf) THEN SubSeq(name, 1, Len(name) - Len(ExtAxf)) ELSE name

C11_ParsedPath ==
    (pc # "parse" /\ log_exists /\ readable /\ summary_path # None) =>
        /\ output_dir = DirOfPath(summary_path)
        /\ output_name = BaseOfPath(summary_path)

\* C12: when the log has no summary line, or the log file is absent or
\* unreadable, the parser returns (None, None) without raising; build() then
\* skips artifact collection and completes with the child's success status.
C12_NoOutputInfo ==
    (pc # "parse" /\ (~log_exists \/ ~readable \/ summary_path = None)) =>
        /\ output_dir = None /\ output_name = None
        /\ pc \notin {"glob", "size", "copy", "raised"}
        /\ collect \in {"unset", "parse_miss"}
        /\ output_files = <<>> /\ attempts = <<>> /\ copied = {}
        /\ (pc \in {"returned", "exited"} => ret = child_code)
        /\ (pc = "exited" => exit_status = child_code)

C12_Witness ==
    /\ pc = "exited"
    /\ log_exists /\ readable
    /\ log_text = Quoted(AxfAbs) \o TailNoWarnings
    /\ exit_status = <<1>>

\* C13: once the child-process wait has ended, build() always eventually
\* reaches its final reporting and returns, even when the tailer never observes
\* the stop signal or never terminates.
C13_BuildReturns == (pc = "grace" /\ wait_end # "none") ~> (pc = "returned")

\* C14: under fair scheduling of the tailer, once the stop signal is set the
\* tailer loop terminates after at most one further polling tick: it completes
\* the tick in progress, sleeps once, re-checks the signal and exits, and it
\* never starts another read after the signal.  TickRank counts the steps the
\* loop has left; a read is started by the step that makes tpc "read".
TickRank(p) == CASE p = "read" -> 3 [] p = "sleep" -> 2 [] p = "check" -> 1 [] OTHER -> 0

C14_TailerStops ==
    /\ [][stop_event => (tpc' = tpc \/ TickRank(tpc') = TickRank(tpc) - 1)]_vars
    /\ stop_event ~> (tpc = "done" \/ pc = "exited")

C14_Witness ==
    /\ stop_event
    /\ pc = "join"
    /\ tpc = "read"
    /\ last_pos < Len(log)

\* C15: a tailer tick on which the log file does not exist, the read fails or
\* no new bytes are available forwards nothing, leaves the read cursor
\* unchanged and goes on to the sleep of the polling loop; it never ends the
\* tailer, and what is forwarded stays a gapless, duplicate-free prefix of the
\* log on every later tick.
IdleTicks == {"missing", "failed", "empty"}

TickStep == tpc = "read" /\ tpc' # "read"

C15_IdleTick ==
    /\ [][(TickStep /\ (tick' \in IdleTicks \/ ~log_exists \/ ReadFrom(last_pos) = <<>>)) =>
             /\ forwarded' = forwarded
             /\ last_pos' = last_pos
             /\ tpc' = "sleep"]_vars
    /\ [](tick \in IdleTicks => tpc = "sleep")
    /\ [](forwarded = SubSeq(log, 1, Len(forwarded)))

C15_Witness ==
    /\ tick = "failed"
    /\ tpc = "sleep"
    /\ 0 < last_pos
    /\ last_pos < Len(log)

\* C16: after argument processing of any argument list the parallelism level
\* of the request is an integer >= 0, and the -j token of the command line
\* carries that level in decimal digits, never a negative or malformed one.
C16_JobsNonNegative ==
    /\ pc # "args" => parallel_jobs >= 0
    /\ pc = "truncate" => IsJobsFlag(cmd[2])

\* C17: in every build the log file is created empty before the tailer is
\* started and before the child is launched, so the tailer never forwards
\* content left over from a previous build; and no step of the orchestrator,
\* on any exit path, deletes the log file.
FromThisBuild(content) == \A i \in 1..Len(content) : content[i].n > 0

C17_FreshLogKept ==
    /\ [][((tpc = "idle" /\ tpc' # "idle") \/ (cstate = "none" /\ cstate' # "none")) =>
             (log_exists /\ log = <<>>)]_vars
    /\ [](FromThisBuild(forwarded))
    /\ [][(log_exists /\ ~log_exists') => (pc' = pc /\ cstate = "running")]_vars
    /\ [](pc \in {"returned", "raised", "exited"} /\ wait_end # "none" /\ ~log_exists =>
             cstate # "none")

C17_Witness ==
    /\ pc = "exited"
    /\ wait_end = "timeout"
    /\ log_exists
    /\ forwarded # <<>>
    /\ FromThisBuild(log)

\* C18: in every reachable state the text forwarded so far by the tailer is
\* exactly the prefix of the log file whose length is the read cursor, and the
\* cursor never decreases: forwarded output is a prefix of what the child has
\* written, without duplication, gap or reordering.
C18_ForwardedIsPrefix ==
    /\ [](/\ last_pos = Len(forwarded)
          /\ last_pos <= Len(log)
          /\ forwarded = SubSeq(log, 1, last_pos))
    /\ [][last_pos' >= last_pos]_vars

C18_Witness ==
    /\ tick = "new"
    /\ cstate = "running"
    /\ 0 < last_pos
    /\ last_pos < Len(log)

\* C19: on every path through build() on which the tailer thread was started
\* (normal exit, build failure, timeout, launch failure) the grace delay is
\* taken, the stop signal is set and the join is attempted, in this order,
\* before build() goes on or returns; the stop signal is set only by a step of
\* the orchestrator, never by the tailer, and once set is never cleared.  On
\* the early-return paths no tailer and no child process are ever started.
PastHandshake ==
    {"parse", "report", "locate", "glob", "size", "copy", "finish", "raised", "returned",
     "exited"}

C19_HandshakeOnEveryPath ==
    /\ [][(tpc # "idle" /\ pc \notin PastHandshake /\ pc' \in PastHandshake) =>
             (pc = "join" /\ stop_event)]_vars
    /\ [][(pc # "join" /\ pc' = "join") => (pc = "signal" /\ stop_event')]_vars
    /\ [][(pc # "signal" /\ pc' = "signal") => (pc = "grace" /\ wait_end # "none")]_vars
    /\ [][(~stop_event /\ stop_event') => (pc = "signal" /\ pc' = "join" /\ tpc' = tpc)]_vars
    /\ [][stop_event => stop_event']_vars
    /\ [](tpc # "idle" /\ pc \in PastHandshake => stop_event /\ wait_end # "none")
    /\ [](wait_end = "none" /\ pc \in PastHandshake =>
             tpc = "idle" /\ cstate = "none" /\ ~stop_event)

C19_Witness ==
    /\ pc = "returned"
    /\ wait_end = "launch_error"
    /\ stop_event
    /\ tpc = "done"
    /\ cstate = "none"
====
